---- MODULE Spec2Model ----
(***************************************************************************)
(* Model of public/docs/cors_server.py: a static file server built on      *)
(* socketserver.TCPServer and http.server.SimpleHTTPRequestHandler with    *)
(* three overrides (end_headers, do_OPTIONS, log_message) and a main block *)
(* that parses the port, changes directory, binds, serves and handles      *)
(* Ctrl-C.  The inherited library behaviour the script relies on (request  *)
(* line parsing, send_response/send_error, serve_forever/shutdown, bind)   *)
(* is modelled after CPython 3.11's http/server.py and socketserver.py.    *)
(***************************************************************************)
EXTENDS Integers, Sequences, FiniteSets, TLC

\* ---------------------------------------------------------------- bounds
MaxRequests == 2      \* connections accepted per run of the process
MaxInterrupts == 2    \* SIGINTs delivered per run of the process
MaxRuns == 2          \* times the process is started
MaxBuf == 2           \* headers already buffered (SpecEndHeaders)

\* ------------------------------------------------------- program constants
DefaultPort == 8080
MaxPort == 65535
allow_reuse_address == FALSE

\* ------------------------------------------------------------ Python strings
Char(s, i) == SubSeq(s, i, i)

Contains(s, sub) ==
    \E i \in 1..(Len(s) - Len(sub) + 1) : SubSeq(s, i, i + Len(sub) - 1) = sub

StartsWith(s, p) == Len(s) >= Len(p) /\ SubSeq(s, 1, Len(p)) = p

EndsWith(s, p) == Len(s) >= Len(p) /\ SubSeq(s, Len(s) - Len(p) + 1, Len(s)) = p

Digits == <<"0", "1", "2", "3", "4", "5", "6", "7", "8", "9">>

IsDigit(c) == \E d \in 1..10 : Digits[d] = c

DigitVal(c) == (CHOOSE d \in 1..10 : Digits[d] = c) - 1

RECURSIVE IntToStr(_)
IntToStr(n) ==
    IF n < 0 THEN "-" \o IntToStr(0 - n)
    ELSE IF n < 10 THEN Digits[n + 1]
    ELSE IntToStr(n \div 10) \o Digits[(n % 10) + 1]

RECURSIVE LStrip(_)
LStrip(s) == IF Len(s) > 0 /\ Char(s, 1) = " " THEN LStrip(SubSeq(s, 2, Len(s))) ELSE s

RECURSIVE RStrip(_)
RStrip(s) ==
    IF Len(s) > 0 /\ Char(s, Len(s)) = " " THEN RStrip(SubSeq(s, 1, Len(s) - 1)) ELSE s

Strip(s) == RStrip(LStrip(s))

\* str.split(): the maximal runs of non-blank characters
RECURSIVE SplitFrom(_, _, _)
SplitFrom(s, i, cur) ==
    IF i > Len(s) THEN (IF cur = "" THEN <<>> ELSE <<cur>>)
    ELSE IF Char(s, i) = " "
         THEN (IF cur = "" THEN <<>> ELSE <<cur>>) \o SplitFrom(s, i + 1, "")
         ELSE SplitFrom(s, i + 1, cur \o Char(s, i))

Split(s) == SplitFrom(s, 1, "")

\* index of the first occurrence of character c in s, 0 when absent
Find(s, c) ==
    IF \E i \in 1..Len(s) : Char(s, i) = c
    THEN CHOOSE i \in 1..Len(s) : Char(s, i) = c /\ \A j \in 1..(i - 1) : Char(s, j) # c
    ELSE 0

AllDigits(s) == Len(s) > 0 /\ \A i \in 1..Len(s) : IsDigit(Char(s, i))

RECURSIVE DigitsValue(_, _)
DigitsValue(s, acc) ==
    IF Len(s) = 0 THEN acc
    ELSE IF Char(s, 1) = "_" THEN DigitsValue(SubSeq(s, 2, Len(s)), acc)
    ELSE DigitsValue(SubSeq(s, 2, Len(s)), 10 * acc + DigitVal(Char(s, 1)))

\* ------------------------------------------------------------ int(sys.argv[1])
Unsigned(s) ==
    LET t == Strip(s)
    IN IF Len(t) > 0 /\ Char(t, 1) \in {"+", "-"} THEN SubSeq(t, 2, Len(t)) ELSE t

\* int() accepts blanks around an optionally signed run of digits, with single
\* underscores between digits; anything else raises ValueError
IsIntLiteral(s) ==
    LET u == Unsigned(s)
    IN /\ Len(u) > 0
       /\ \A i \in 1..Len(u) :
            \/ IsDigit(Char(u, i))
            \/ /\ Char(u, i) = "_"
               /\ 1 < i /\ i < Len(u)
               /\ IsDigit(Char(u, i - 1)) /\ IsDigit(Char(u, i + 1))

IntValue(s) ==
    LET t == Strip(s)
        v == DigitsValue(Unsigned(s), 0)
    IN IF Len(t) > 0 /\ Char(t, 1) = "-" THEN 0 - v ELSE v

\* --------------------------------------------------- the request handler
\* A log argument is a tagged Python value: a str or an int.
S(s) == <<"str", s>>

I(n) == <<"int", n>>

PyRepr(a) == IF a[1] = "str" THEN "'" \o a[2] \o "'" ELSE IntToStr(a[2])

RECURSIVE PyJoin(_)
PyJoin(args) ==
    IF Len(args) = 0 THEN ""
    ELSE IF Len(args) = 1 THEN PyRepr(args[1])
    ELSE PyRepr(args[1]) \o ", " \o PyJoin(Tail(args))

\* str(args[1:]) of a tuple: "()", "('x',)", "('x', 'y')"
PyStrTuple(args) ==
    IF Len(args) = 1 THEN "(" \o PyRepr(args[1]) \o ",)" ELSE "(" \o PyJoin(args) \o ")"

\* The handler object while one request is processed: what was parsed, the
\* headers buffer, the chunks written to the client, the log lines emitted,
\* whether the file system was consulted, and a pending exception.
NewHandler ==
    [requestline |-> "", request_version |-> "HTTP/0.9", command |-> "", path |-> "",
     buf |-> <<>>, wire |-> <<>>, log |-> <<>>, fs |-> FALSE, exc |-> "none",
     status |-> 0, ok |-> FALSE, f |-> FALSE]

Line(k, v) == [k |-> k, v |-> v]

Chunk(kind, lines, data) == [kind |-> kind, lines |-> lines, data |-> data]

\* BaseHTTPRequestHandler.log_message writes one line to stderr
log_message_nofilter(h, format, args) ==
    [h EXCEPT !.log = Append(@, [format |-> format, args |-> args])]

\* CORSHTTPRequestHandler.log_message
log_message(h, format, args) ==
    IF ~Contains(format, "GET") THEN h
    ELSE IF args[1][1] # "str" THEN [h EXCEPT !.exc = "TypeError"]
    ELSE IF Contains(args[1][2], ".pdf") \/ Contains(PyStrTuple(Tail(args)), "200")
         THEN [h EXCEPT !.log = Append(@, [format |-> format, args |-> args])]
         ELSE h

log_request(h, code) ==
    log_message(h, "\"%s\" %s %s", <<S(h.requestline), S(IntToStr(code)), S("-")>>)

log_error(h, format, args) == log_message(h, format, args)

send_response_only(h, code, message) ==
    IF h.exc # "none" THEN h
    ELSE IF h.request_version # "HTTP/0.9"
         THEN [h EXCEPT !.buf = Append(@, Line(":status", IntToStr(code) \o " " \o message)),
                        !.status = code]
         ELSE [h EXCEPT !.status = code]

send_header(h, keyword, value) ==
    IF h.exc # "none" THEN h
    ELSE IF h.request_version # "HTTP/0.9"
         THEN [h EXCEPT !.buf = Append(@, Line(keyword, value))]
         ELSE h

send_response(h, code, message) ==
    send_header(
        send_header(send_response_only(log_request(h, code), code, message),
                    "Server", "SimpleHTTP/0.6"),
        "Date", "<now>")

\* BaseHTTPRequestHandler.end_headers: blank line, then flush the buffer
base_end_headers(h) ==
    IF h.exc # "none" THEN h
    ELSE IF h.request_version # "HTTP/0.9"
         THEN [h EXCEPT !.wire = Append(@, Chunk("head", h.buf, "")), !.buf = <<>>]
         ELSE h

end_headers_drop_credentials(h) ==
    base_end_headers(
        send_header(
            send_header(
                send_header(h, "Access-Control-Allow-Origin", "*"),
                "Access-Control-Allow-Methods", "GET, POST, OPTIONS"),
            "Access-Control-Allow-Headers", "*"))

\* CORSHTTPRequestHandler.end_headers
end_headers(h) ==
    base_end_headers(
        send_header(
            send_header(
                send_header(
                    send_header(h, "Access-Control-Allow-Origin", "*"),
                    "Access-Control-Allow-Methods", "GET, POST, OPTIONS"),
                "Access-Control-Allow-Headers", "*"),
            "Access-Control-Allow-Credentials", "true"))

write_body(h, data) ==
    IF h.exc # "none" THEN h ELSE [h EXCEPT !.wire = Append(@, Chunk("body", <<>>, data))]

NoBodyCodes == {204, 205, 304}

send_error(h, code, message) ==
    LET h1 == send_header(
                  send_response(log_error(h, "code %d, message %s", <<I(code), S(message)>>),
                                code, message),
                  "Connection", "close")
        hasBody == code >= 200 /\ code \notin NoBodyCodes
        h2 == IF hasBody
              THEN send_header(send_header(h1, "Content-Type", "text/html;charset=utf-8"),
                               "Content-Length", "<len>")
              ELSE h1
        h3 == end_headers(h2)
    IN IF h.command # "HEAD" /\ hasBody THEN write_body(h3, "error_html") ELSE h3

do_OPTIONS_via_send_head(h) == end_headers(send_response([h EXCEPT !.fs = TRUE], 404, "File not found"))

\* CORSHTTPRequestHandler.do_OPTIONS
do_OPTIONS(h) == end_headers(send_response(h, 200, "OK"))

\* ------------------------------------------ inherited request processing
\* "HTTP/" digits "." digits, as parse_request checks the last word
IsHttpVersion(v) ==
    /\ StartsWith(v, "HTTP/")
    /\ LET num == SubSeq(v, 6, Len(v))
           dot == Find(num, ".")
       IN /\ dot > 0
          /\ AllDigits(SubSeq(num, 1, dot - 1))
          /\ AllDigits(SubSeq(num, dot + 1, Len(num)))

VersionMajor(v) ==
    LET num == SubSeq(v, 6, Len(v)) IN DigitsValue(SubSeq(num, 1, Find(num, ".") - 1), 0)

Fail(h) == [h EXCEPT !.ok = FALSE]

\* BaseHTTPRequestHandler.parse_request; hdrs = "bad" stands for a header
\* block http.client.parse_headers rejects (line too long / too many headers)
parse_request(h0, raw, hdrs) ==
    LET words == Split(raw)
        n == Len(words)
        h == [h0 EXCEPT !.requestline = raw, !.request_version = "HTTP/0.9", !.command = ""]
    IN IF n = 0 THEN Fail(h)
       ELSE IF n >= 3 /\ ~IsHttpVersion(words[n])
       THEN Fail(send_error(h, 400, "Bad request version ('" \o words[n] \o "')"))
       ELSE IF n >= 3 /\ VersionMajor(words[n]) >= 2
       THEN Fail(send_error(h, 505, "Invalid HTTP version (" \o SubSeq(words[n], 6, Len(words[n])) \o ")"))
       ELSE LET h1 == IF n >= 3 THEN [h EXCEPT !.request_version = words[n]] ELSE h
            IN IF ~(2 <= n /\ n <= 3)
               THEN Fail(send_error(h1, 400, "Bad request syntax ('" \o raw \o "')"))
               ELSE IF n = 2 /\ words[1] # "GET"
               THEN Fail(send_error(h1, 400, "Bad HTTP/0.9 request type ('" \o words[1] \o "')"))
               ELSE LET h2 == [h1 EXCEPT !.command = words[1], !.path = words[2]]
                    IN IF hdrs = "bad"
                       THEN Fail(send_error(h2, 431, "Line too long"))
                       ELSE [h2 EXCEPT !.ok = TRUE]

\* SimpleHTTPRequestHandler.translate_path: drop the query and the fragment
translate_path(path) ==
    LET q == Find(path, "?")
        p1 == IF q > 0 THEN SubSeq(path, 1, q - 1) ELSE path
        f == Find(p1, "#")
    IN IF f > 0 THEN SubSeq(p1, 1, f - 1) ELSE p1

StripSlash(p) == IF Len(p) > 1 /\ EndsWith(p, "/") THEN SubSeq(p, 1, Len(p) - 1) ELSE p

Dirs == {"/docs"}

guess_type(path) == IF EndsWith(path, ".pdf") THEN "application/pdf" ELSE "text/plain"

\* SimpleHTTPRequestHandler.send_head; the result carries in .f whether a
\* file object is returned for the caller to copy
send_head(h0, files, hdrs) ==
    LET h == [h0 EXCEPT !.fs = TRUE, !.f = FALSE]
        path == translate_path(h.path)
    IN IF StripSlash(path) \in Dirs
       THEN IF ~EndsWith(path, "/")
            THEN end_headers(
                     send_header(
                         send_header(send_response(h, 301, "Moved Permanently"),
                                     "Location", path \o "/"),
                         "Content-Length", "0"))
            ELSE [end_headers(
                      send_header(
                          send_header(send_response(h, 200, "OK"),
                                      "Content-type", "text/html; charset=utf-8"),
                          "Content-Length", "<len>")) EXCEPT !.f = TRUE]
       ELSE IF EndsWith(path, "/") \/ path \notin files
       THEN send_error(h, 404, "File not found")
       ELSE IF hdrs = "ims"
       THEN end_headers(send_response(h, 304, "Not Modified"))
       ELSE [end_headers(
                 send_header(
                     send_header(
                         send_header(send_response(h, 200, "OK"),
                                     "Content-type", guess_type(path)),
                         "Content-Length", "<len>"),
                     "Last-Modified", "<mtime>")) EXCEPT !.f = TRUE]

do_GET(h, files, hdrs) ==
    LET h1 == send_head(h, files, hdrs)
    IN IF h1.f
       THEN write_body(h1, IF StripSlash(translate_path(h.path)) \in Dirs
                           THEN "listing" ELSE "file")
       ELSE h1

do_HEAD(h, files, hdrs) == send_head(h, files, hdrs)

\* BaseHTTPRequestHandler.handle_one_request: parse, then dispatch on do_<command>
handle_one_request(raw, hdrs, files) ==
    LET h == parse_request(NewHandler, raw, hdrs)
    IN IF ~h.ok THEN h
       ELSE IF h.command = "OPTIONS" THEN do_OPTIONS(h)
       ELSE IF h.command = "GET" THEN do_GET(h, files, hdrs)
       ELSE IF h.command = "HEAD" THEN do_HEAD(h, files, hdrs)
       ELSE send_error(h, 501, "Unsupported method ('" \o h.command \o "')")

\* ------------------------------------------------------------- the process
VARIABLES
    pc,               \* position of the main block
    argv,             \* sys.argv[1:]
    port,             \* the variable port of the main block, -1 while unset
    cwd,              \* "invocation" until os.chdir, then "script_dir"
    sock,             \* httpd.socket: "none", "listening" or "closed"
    boundPort,        \* port the listener is bound to, -1 when none
    bindAttempts,     \* calls of socket.bind in this run
    bindFailed,       \* the bind of this run raised
    stdout,           \* lines printed
    exitStatus,       \* exit status once pc = "exited", -1 before
    is_shut_down,     \* BaseServer.__is_shut_down (threading.Event)
    shutdown_request, \* BaseServer.__shutdown_request
    portState,        \* the address before this run binds: "free", "inuse", "lingering"
    files,            \* regular files under the served directory
    req,              \* the request being handled
    resp,             \* the handler after the last handled request
    delivered,        \* the last response reached the client
    served,           \* connections accepted in this run
    failed,           \* requests of this run that ended in 404 or a disconnect
    interrupts,       \* SIGINTs delivered in this run
    intrAt,           \* pc at the first SIGINT of this run
    servedAtIntr,     \* served at the first SIGINT of this run
    run               \* number of the current run

vars == <<pc, argv, port, cwd, sock, boundPort, bindAttempts, bindFailed, stdout,
          exitStatus, is_shut_down, shutdown_request, portState, files, req, resp,
          delivered, served, failed, interrupts, intrAt, servedAtIntr, run>>

envVars == <<portState, files, run>>

reqVars == <<req, resp, delivered, served, failed>>

intrVars == <<interrupts, intrAt, servedAtIntr>>

Argvs == {<<>>, <<"9090">>, <<" 8_1 ">>, <<"abc">>, <<"8o8o">>, <<"-1">>, <<"70000">>}

Methods == {"GET", "HEAD", "POST", "OPTIONS"}

Paths == {"/sample.pdf", "/missing.txt", "/docs", "/docs/", "/sample.pdf?v=200"}

Versions == {"", " HTTP/1.1", " HTTP/2.0", " FOO"}

RequestLines ==
    {m \o " " \o p \o v : m \in Methods, p \in Paths, v \in Versions}
        \cup {"GET", "GET /sample.pdf x HTTP/1.1"}

\* the header block of a request: readable, readable with an If-Modified-Since
\* not older than the file, or rejected by the header parser
HeaderKinds == {"ok", "ims", "bad"}

FileSets == {{}, {"/sample.pdf"}}

NoReq == [line |-> "", hdrs |-> "none"]

NoResp == [NewHandler EXCEPT !.status = -1]

Fresh ==
    /\ pc = "parse"
    /\ port = -1
    /\ cwd = "invocation"
    /\ sock = "none"
    /\ boundPort = -1
    /\ bindAttempts = 0
    /\ bindFailed = FALSE
    /\ stdout = <<>>
    /\ exitStatus = -1
    /\ is_shut_down = FALSE
    /\ shutdown_request = FALSE
    /\ req = NoReq
    /\ resp = NoResp
    /\ delivered = FALSE
    /\ served = 0
    /\ failed = 0
    /\ interrupts = 0
    /\ intrAt = "none"
    /\ servedAtIntr = -1

Init ==
    /\ Fresh
    /\ argv \in Argvs
    /\ portState \in {"free", "inuse"}
    /\ files \in FileSets
    /\ run = 1

\* an uncaught exception: the with block (if entered) closes the socket
Die(status) ==
    /\ pc' = "exited"
    /\ exitStatus' = status
    /\ sock' = IF sock = "listening" THEN "closed" ELSE sock

parse_port_default_on_error(a) ==
    IF Len(a) > 0 /\ IsIntLiteral(a[1])
    THEN [ok |-> TRUE, port |-> IntValue(a[1])]
    ELSE [ok |-> TRUE, port |-> DefaultPort]

\* lines 32-35: port = int(sys.argv[1]) if given, else 8080
parse_port(a) ==
    IF Len(a) > 0
    THEN IF IsIntLiteral(a[1])
         THEN [ok |-> TRUE, port |-> IntValue(a[1])]
         ELSE [ok |-> FALSE, port |-> -1]
    ELSE [ok |-> TRUE, port |-> DefaultPort]

ParseArgs ==
    /\ pc = "parse"
    /\ LET r == parse_port(argv)
       IN IF r.ok
          THEN /\ port' = r.port
               /\ pc' = "chdir"
               /\ UNCHANGED <<exitStatus, sock>>
          ELSE /\ Die(1)
               /\ UNCHANGED port
    /\ UNCHANGED <<argv, cwd, boundPort, bindAttempts, bindFailed, stdout, is_shut_down,
                   shutdown_request>>
    /\ UNCHANGED <<envVars, reqVars, intrVars>>

\* line 38
ChDir ==
    /\ pc = "chdir"
    /\ cwd' = "script_dir"
    /\ pc' = "bind"
    /\ UNCHANGED <<argv, port, sock, boundPort, bindAttempts, bindFailed, stdout, exitStatus,
                   is_shut_down, shutdown_request>>
    /\ UNCHANGED <<envVars, reqVars, intrVars>>

\* TCPServer.server_bind: SO_REUSEADDR only when allow_reuse_address
bind_ok(p, st) ==
    /\ p \in 0..MaxPort
    /\ \/ st = "free"
       \/ st = "lingering" /\ allow_reuse_address

on_bind_error_fallback(p) == [pc |-> "bind", port |-> DefaultPort, status |-> -1]

\* TCPServer.__init__ closes the socket and re-raises; line 40 does not catch
on_bind_error(p) == [pc |-> "exited", port |-> p, status |-> 1]

\* line 40
Bind ==
    /\ pc = "bind"
    /\ bindAttempts' = bindAttempts + 1
    /\ IF bind_ok(port, portState)
       THEN /\ sock' = "listening"
            /\ boundPort' = port
            /\ pc' = "announce"
            /\ UNCHANGED <<port, exitStatus, bindFailed>>
       ELSE /\ sock' = "closed"
            /\ bindFailed' = TRUE
            /\ pc' = on_bind_error(port).pc
            /\ port' = on_bind_error(port).port
            /\ exitStatus' = on_bind_error(port).status
            /\ UNCHANGED boundPort
    /\ UNCHANGED <<argv, cwd, stdout, is_shut_down, shutdown_request>>
    /\ UNCHANGED <<envVars, reqVars, intrVars>>

\* lines 41-43
Announce ==
    /\ pc = "announce"
    /\ stdout' = stdout \o <<"Serving with CORS on port " \o IntToStr(port),
                             "Files available at: http://localhost:" \o IntToStr(port) \o "/",
                             "Press Ctrl+C to stop">>
    /\ pc' = "serve_enter"
    /\ UNCHANGED <<argv, port, cwd, sock, boundPort, bindAttempts, bindFailed, exitStatus,
                   is_shut_down, shutdown_request>>
    /\ UNCHANGED <<envVars, reqVars, intrVars>>

\* line 45: serve_forever clears the event, then enters its try block
ServeEnter ==
    /\ pc = "serve_enter"
    /\ is_shut_down' = FALSE
    /\ pc' = "select"
    /\ UNCHANGED <<argv, port, cwd, sock, boundPort, bindAttempts, bindFailed, stdout,
                   exitStatus, shutdown_request>>
    /\ UNCHANGED <<envVars, reqVars, intrVars>>

\* -------------------------------------------------------------- serving
\* serve_forever loop: select reports the listening socket readable and
\* _handle_request_noblock accepts the connection
Accept(line, hdrs) ==
    /\ pc = "select"
    /\ ~shutdown_request
    /\ served < MaxRequests
    /\ req' = [line |-> line, hdrs |-> hdrs]
    /\ resp' = NoResp
    /\ delivered' = FALSE
    /\ served' = served + 1
    /\ pc' = "handling"
    /\ UNCHANGED <<argv, port, cwd, sock, boundPort, bindAttempts, bindFailed, stdout,
                   exitStatus, is_shut_down, shutdown_request, failed>>
    /\ UNCHANGED <<envVars, intrVars>>

handle_request_exception_reraise(kind) == "raise"

\* _handle_request_noblock: "except Exception" prints the traceback
\* (handle_error), closes the request and carries on
handle_request_exception(kind) == IF kind = "Exception" THEN "continue" ELSE "raise"

\* process_request -> CORSHTTPRequestHandler(request, ...) -> handle();
\* disc: the client closes the connection while the response is written
Handle(disc) ==
    /\ pc = "handling"
    /\ LET h == handle_one_request(req.line, req.hdrs, files)
           raised == disc \/ h.exc # "none"
       IN /\ disc => h.wire # <<>>
          /\ resp' = h
          /\ delivered' = ~raised
          /\ failed' = IF raised \/ h.status = 404 THEN failed + 1 ELSE failed
          /\ IF raised /\ handle_request_exception("Exception") = "raise"
             THEN Die(1)
             ELSE /\ pc' = "select"
                  /\ UNCHANGED <<exitStatus, sock>>
    /\ req' = NoReq
    /\ UNCHANGED <<argv, port, cwd, boundPort, bindAttempts, bindFailed, stdout,
                   is_shut_down, shutdown_request, served>>
    /\ UNCHANGED <<envVars, intrVars>>

serve_forever_no_finally(ev) == ev

\* serve_forever's finally clause: self.__is_shut_down.set()
serve_forever_finally(ev) == TRUE

\* SIGINT: KeyboardInterrupt is raised in the main thread wherever it is
Interrupt ==
    /\ pc # "exited"
    /\ interrupts < MaxInterrupts
    /\ interrupts' = interrupts + 1
    /\ intrAt' = IF interrupts = 0 THEN pc ELSE intrAt
    /\ servedAtIntr' = IF interrupts = 0 THEN served ELSE servedAtIntr
    /\ IF pc \in {"select", "handling"}
       THEN \* unwinds serve_forever (finally), caught at line 46
            /\ is_shut_down' = serve_forever_finally(is_shut_down)
            /\ shutdown_request' = FALSE
            /\ pc' = "except"
            /\ req' = NoReq
            /\ UNCHANGED <<exitStatus, sock>>
       ELSE IF pc = "serve_enter"
       THEN \* inside the try of line 44, outside serve_forever's try
            /\ pc' = "except"
            /\ req' = NoReq
            /\ UNCHANGED <<exitStatus, sock, is_shut_down, shutdown_request>>
       ELSE \* not inside the try of line 44: uncaught
            /\ Die(130)
            /\ UNCHANGED <<is_shut_down, shutdown_request, req>>
    /\ UNCHANGED <<argv, port, cwd, boundPort, bindAttempts, bindFailed, stdout,
                   resp, delivered, served, failed>>
    /\ UNCHANGED envVars

\* line 47
ExceptHandler ==
    /\ pc = "except"
    /\ stdout' = Append(stdout, "\nServer stopped")
    /\ pc' = "shutdown"
    /\ UNCHANGED <<argv, port, cwd, sock, boundPort, bindAttempts, bindFailed, exitStatus,
                   is_shut_down, shutdown_request>>
    /\ UNCHANGED <<envVars, reqVars, intrVars>>

\* line 48, BaseServer.shutdown: self.__shutdown_request = True
ShutdownCall ==
    /\ pc = "shutdown"
    /\ shutdown_request' = TRUE
    /\ pc' = "shutdown_wait"
    /\ UNCHANGED <<argv, port, cwd, sock, boundPort, bindAttempts, bindFailed, stdout,
                   exitStatus, is_shut_down>>
    /\ UNCHANGED <<envVars, reqVars, intrVars>>

\* BaseServer.shutdown: self.__is_shut_down.wait() returns; the with block
\* closes the socket and the script ends
ShutdownReturn ==
    /\ pc = "shutdown_wait"
    /\ is_shut_down
    /\ sock' = "closed"
    /\ pc' = "exited"
    /\ exitStatus' = 0
    /\ UNCHANGED <<argv, port, cwd, boundPort, bindAttempts, bindFailed, stdout,
                   is_shut_down, shutdown_request>>
    /\ UNCHANGED <<envVars, reqVars, intrVars>>

\* the user starts the script again; connections of the previous run may
\* still be in TIME_WAIT on the address
Restart ==
    /\ pc = "exited"
    /\ run < MaxRuns
    /\ run' = run + 1
    /\ argv' \in Argvs
    /\ portState' \in IF boundPort # -1
                      THEN (IF served > 0 THEN {"lingering", "free"} ELSE {"free"})
                      ELSE {portState, "free"}
    /\ pc' = "parse"
    /\ port' = -1
    /\ cwd' = "invocation"
    /\ sock' = "none"
    /\ boundPort' = -1
    /\ bindAttempts' = 0
    /\ bindFailed' = FALSE
    /\ stdout' = <<>>
    /\ exitStatus' = -1
    /\ is_shut_down' = FALSE
    /\ shutdown_request' = FALSE
    /\ req' = NoReq
    /\ resp' = NoResp
    /\ delivered' = FALSE
    /\ served' = 0
    /\ failed' = 0
    /\ interrupts' = 0
    /\ intrAt' = "none"
    /\ servedAtIntr' = -1
    /\ UNCHANGED files

Next ==
    \/ ParseArgs
    \/ ChDir
    \/ Bind
    \/ Announce
    \/ ServeEnter
    \/ \E line \in RequestLines, hdrs \in HeaderKinds : Accept(line, hdrs)
    \/ \E disc \in BOOLEAN : Handle(disc)
    \/ Interrupt
    \/ ExceptHandler
    \/ ShutdownCall
    \/ ShutdownReturn
    \/ Restart

Spec == Init /\ [][Next]_vars

\* the steps of the script's only thread once KeyboardInterrupt is caught
AfterInterrupt ==
    \/ ExceptHandler
    \/ ShutdownCall
    \/ ShutdownReturn

\* the main thread keeps running: a step of lines 46-48 that is enabled is
\* eventually taken; requests, signals and restarts are up to the environment
LiveSpec == Init /\ [][Next]_vars /\ WF_vars(AfterInterrupt)

\* ------------------------------------------- end_headers on its own
\* end_headers applied to the headers the response already has in the buffer
\* when it runs: the status line, Server and Date of send_response, then up
\* to MaxBuf further headers, a CORS header among them being the case the
\* injection is specified for ("if already set by the underlying handler").
PresetHeaders ==
    {Line("Content-type", "application/pdf"),
     Line("Content-Length", "<len>"),
     Line("Access-Control-Allow-Origin", "https://app.example"),
     Line("Access-Control-Allow-Methods", "GET"),
     Line("Access-Control-Allow-Headers", "Range"),
     Line("Access-Control-Allow-Credentials", "false")}

RECURSIVE SeqsUpTo(_, _)
SeqsUpTo(set, n) ==
    IF n = 0 THEN {<<>>}
    ELSE LET shorter == SeqsUpTo(set, n - 1)
         IN shorter \cup {Append(q, x) : q \in shorter, x \in set}

InitEndHeaders ==
    /\ pc = "before_end_headers"
    /\ \E code \in {200, 404}, extra \in SeqsUpTo(PresetHeaders, MaxBuf) :
         resp = [send_response([NewHandler EXCEPT !.request_version = "HTTP/1.1"],
                               code, "<reason>")
                 EXCEPT !.buf = @ \o extra]
    /\ argv = <<>>
    /\ port = DefaultPort
    /\ cwd = "script_dir"
    /\ sock = "listening"
    /\ boundPort = DefaultPort
    /\ bindAttempts = 1
    /\ bindFailed = FALSE
    /\ stdout = <<>>
    /\ exitStatus = -1
    /\ is_shut_down = FALSE
    /\ shutdown_request = FALSE
    /\ portState = "free"
    /\ files = {}
    /\ req = NoReq
    /\ delivered = FALSE
    /\ served = 1
    /\ failed = 0
    /\ interrupts = 0
    /\ intrAt = "none"
    /\ servedAtIntr = -1
    /\ run = 1

EndHeadersCall ==
    /\ pc = "before_end_headers"
    /\ resp' = end_headers(resp)
    /\ pc' = "after_end_headers"
    /\ UNCHANGED <<argv, port, cwd, sock, boundPort, bindAttempts, bindFailed, stdout,
                   exitStatus, is_shut_down, shutdown_request, req, delivered, served,
                   failed>>
    /\ UNCHANGED <<envVars, intrVars>>

SpecEndHeaders == InitEndHeaders /\ [][EndHeadersCall]_vars

\* ------------------------------------------------------------ properties
CORSHeaders ==
    {Line("Access-Control-Allow-Origin", "*"),
     Line("Access-Control-Allow-Methods", "GET, POST, OPTIONS"),
     Line("Access-Control-Allow-Headers", "*"),
     Line("Access-Control-Allow-Credentials", "true")}

CORSNames == {c.k : c \in CORSHeaders}

Responded == pc \notin {"before_end_headers", "after_end_headers"} /\ resp.status > 0

HeadChunks(h) == {i \in 1..Len(h.wire) : h.wire[i].kind = "head"}

BodyChunks(h) == {i \in 1..Len(h.wire) : h.wire[i].kind = "body"}

Count(lines, name) == Cardinality({j \in 1..Len(lines) : lines[j].k = name})

\* one header block, sent first, holding each CORS header with its value
HasCORS(h) ==
    /\ HeadChunks(h) = {1}
    /\ \A c \in CORSHeaders : \E j \in 1..Len(h.wire[1].lines) : h.wire[1].lines[j] = c

RequestWords == Split(resp.requestline)

RequestMethod == IF Len(RequestWords) >= 1 THEN RequestWords[1] ELSE ""

RequestPath == IF Len(RequestWords) >= 2 THEN RequestWords[2] ELSE ""

\* C1 as stated: every response the server sends, whatever the method and
\* the status, carries the four CORS headers with their exact values.
C1_EveryResponseHasCORS == Responded => HasCORS(resp)

\* C1 amended: a response carries the four CORS headers with their exact
\* values exactly when it has a header block, that is unless it answers an
\* HTTP/0.9-style request line or a request line rejected before its version
\* was accepted; those responses are a bare body without any header.
C1_HeaderBlockHasCORS ==
    Responded =>
        IF resp.request_version # "HTTP/0.9"
        THEN HasCORS(resp)
        ELSE HeadChunks(resp) = {}

C1_Witness == Responded /\ resp.status = 404 /\ HasCORS(resp) /\ delivered

\* C2 as stated: every request whose method is OPTIONS gets status 200, an
\* empty body and the four CORS headers, and the file system is not consulted.
C2_EveryOptions ==
    (Responded /\ RequestMethod = "OPTIONS") =>
        /\ resp.status = 200
        /\ BodyChunks(resp) = {}
        /\ HasCORS(resp)
        /\ ~resp.fs

\* C2 amended: every request with method OPTIONS that the request parser
\* accepts (an HTTP/1.x request line and a header block it can read) gets
\* status 200, an empty body and the four CORS headers, whatever its path and
\* whatever files exist, and the file system is not consulted.
C2_ParsedOptions ==
    (Responded /\ resp.ok /\ resp.command = "OPTIONS") =>
        /\ resp.status = 200
        /\ BodyChunks(resp) = {}
        /\ HasCORS(resp)
        /\ ~resp.fs

C2_Witness ==
    /\ Responded /\ resp.ok /\ resp.command = "OPTIONS"
    /\ resp.path = "/sample.pdf" /\ "/sample.pdf" \in files
    /\ resp.status = 200 /\ delivered

\* C3: every completed GET request whose path contains ".pdf" or whose
\* status is 200 produces exactly one log line.
C3_OneLogLinePerPdfGet ==
    (Responded /\ resp.command = "GET"
        /\ (Contains(resp.path, ".pdf") \/ resp.status = 200)) =>
        Len(resp.log) = 1

\* C4: no log line is produced for a request whose method is not GET, nor
\* for a GET whose path does not contain ".pdf" and whose status is not 200.
C4_NoLogOtherwise ==
    (Responded /\ (RequestMethod # "GET"
                   \/ (~Contains(RequestPath, ".pdf") /\ resp.status # 200))) =>
        resp.log = <<>>

C4_Witness ==
    /\ Responded /\ RequestMethod = "GET" /\ RequestPath = "/missing.txt"
    /\ resp.status = 404 /\ resp.log = <<>>

ServingPrinted == \E i \in 1..Len(stdout) : StartsWith(stdout[i], "Serving with CORS on port")

\* C5: when the requested port cannot be bound the process exits with a
\* non-zero status, without the "Serving" message, without serving a request,
\* without a second bind and without binding another port.
C5_BindFailureIsFatal ==
    bindFailed =>
        /\ pc = "exited"
        /\ exitStatus > 0
        /\ ~ServingPrinted
        /\ served = 0
        /\ bindAttempts = 1
        /\ boundPort = -1
        /\ sock # "listening"

C5_Witness == bindFailed /\ portState = "inuse" /\ pc = "exited"

NonIntegerArgs == {"abc", "8o8o"}

\* C6: a port argument that is not an integer makes the process exit with a
\* non-zero status before the directory is changed and before a socket is
\* opened, and the default port is not used instead.
C6_BadPortIsFatal ==
    (Len(argv) > 0 /\ argv[1] \in NonIntegerArgs /\ pc # "parse") =>
        /\ pc = "exited"
        /\ exitStatus > 0
        /\ cwd = "invocation"
        /\ sock = "none"
        /\ bindAttempts = 0
        /\ port # DefaultPort
        /\ boundPort = -1

C6_Witness == argv = <<"8o8o">> /\ pc = "exited" /\ exitStatus = 1

\* the one SIGINT of this run arrived while serve_forever waited for a
\* connection or handled a request
CleanInterrupt == interrupts = 1 /\ intrAt \in {"select", "handling"}

\* C7: after an interrupt delivered while waiting for a connection or
\* handling a request, no further connection is accepted, the acknowledgment
\* is printed before the exit, the exit status is 0, and the process does
\* terminate (httpd.shutdown() returns).
C7_InterruptStopsCleanly ==
    /\ [](CleanInterrupt => served = servedAtIntr)
    /\ []((CleanInterrupt /\ pc = "exited") =>
            (exitStatus = 0 /\ stdout[Len(stdout)] = "\nServer stopped" /\ sock = "closed"))
    /\ (CleanInterrupt ~> pc = "exited")

C7_Witness ==
    /\ CleanInterrupt /\ intrAt = "handling" /\ pc = "exited" /\ exitStatus = 0

\* C8: a request that ends in a 404 or in a client disconnect leaves the
\* server in its accept loop with the listener open (until an interrupt).
C8_FailedRequestKeepsServing ==
    (failed > 0 /\ interrupts = 0) =>
        /\ pc \in {"select", "handling"}
        /\ sock = "listening"
        /\ exitStatus = -1

C8_Witness ==
    /\ failed > 0 /\ interrupts = 0 /\ pc = "select"
    /\ resp.status = 200 /\ delivered /\ BodyChunks(resp) # {}

\* C9: a start on a port whose previous listener left lingering connections
\* binds successfully (address reuse is enabled).
C9_RestartBinds ==
    (bindAttempts > 0 /\ portState = "lingering" /\ port \in 0..MaxPort) => ~bindFailed

====
